---- MODULE Spec2Model ----
(***************************************************************************)
(* The `sample` operator of src/internal/operators/sample.ts as a state    *)
(* machine: one subscription to sample(notifier)(source), its              *)
(* SampleSubscriber (value, hasValue), the two upstream legs and the       *)
(* downstream consumer.                                                    *)
(*                                                                         *)
(* SampleOperator.call runs in three steps, because the source and the     *)
(* notifier may deliver signals synchronously while they are being         *)
(* subscribed:                                                             *)
(*     Subscribe      -> new SampleSubscriber; source.subscribe(...)       *)
(*     InnerSubscribe -> innerSubscribe(notifier, new SimpleInner...)      *)
(*     AddInner       -> subscription.add(...); return subscription        *)
(* Signals handled while pc = "srcSub" / "notSub" are the synchronous      *)
(* ones; pc = "active" is the steady state after call returned.            *)
(***************************************************************************)
EXTENDS Integers, Sequences, FiniteSets

\* ---------------------------------------------------------------- bounds
\* Source values are 1..MaxVal, notifier values 1..MaxTick; at most MaxEvents
\* signals are handled in one run.
MaxVal == 3
MaxTick == 2
MaxEvents == 4

\* At most MaxDepth downstream next handlers run nested in one another.
MaxDepth == 1

\* `private value: T | undefined` before the first source value.
Undefined == 0

Values == 1..MaxVal

Ticks == 1..MaxTick

VARIABLES
    pc,           \* position in SampleOperator.call: idle, srcSub, notSub, active
    value,        \* SampleSubscriber.value
    hasValue,     \* SampleSubscriber.hasValue
    closed,       \* SampleSubscriber (= the subscription call returns) is closed
    innerActive,  \* the notifier's SimpleInnerSubscriber is subscribed and open
    linked,       \* the inner subscription was added to the subscription
    destStopped,  \* the downstream consumer has terminated or unsubscribed
    out,          \* signals the downstream consumer has received, in order
    frames,       \* the calls of emitValue waiting for destination.next to return
    subAt,        \* history: how many signals were handled before innerSubscribe
    lifted,       \* sample(notifier)(source) has been called: the output exists
    count,        \* history: subscribe calls made on the output, source, notifier
    other,        \* a second subscription to the same output (SpecTwo only):
                  \* pc, its SampleSubscriber s, and as history the number n
                  \* of signals it handled and its source's values src
    trace         \* history: signals handled so far, in order

vars ==
    <<pc, value, hasValue, closed, innerActive, linked, destStopped, out, frames,
      trace, subAt, lifted, count, other>>

\* The fields the handlers read and write, as one record.
Cur ==
    [value |-> value, hasValue |-> hasValue, closed |-> closed,
     innerActive |-> innerActive, linked |-> linked,
     destStopped |-> destStopped, out |-> out, frames |-> frames]

Set(s) ==
    /\ value' = s.value
    /\ hasValue' = s.hasValue
    /\ closed' = s.closed
    /\ innerActive' = s.innerActive
    /\ linked' = s.linked
    /\ destStopped' = s.destStopped
    /\ out' = s.out
    /\ frames' = s.frames

\* A downstream signal: sig is next / error / complete, val the value of a
\* next, err the failing leg of an error, at the index in trace of the signal
\* whose handling delivered it.
Signal(sig, val, err, at) == [sig |-> sig, val |-> val, err |-> err, at |-> at]

\* ------------------------------------------------ the surrounding runtime

\* Subscription.unsubscribe of the SampleSubscriber: it closes, and so do the
\* subscriptions added to it.
unsubscribe(s) ==
    [s EXCEPT !.closed = TRUE,
              !.innerActive = IF s.linked THEN FALSE ELSE @]

\* The downstream consumer terminating or being unsubscribed: it stops, and
\* the SampleSubscriber, its child subscription, is unsubscribed with it.
destination_unsubscribe(s) ==
    unsubscribe([s EXCEPT !.destStopped = TRUE])

\* The consumer's next handler is entered: the caller waits at line 89 for it
\* to return, and whatever the handler does synchronously is handled while
\* it waits. Beyond MaxDepth nested handlers, a handler returns at once.
enter(s) ==
    IF Len(s.frames) < MaxDepth
        THEN [s EXCEPT !.frames = Append(@, "return")]
        ELSE s

\* Mutant: a consumer that takes a next after it has stopped.
destination_next_unguarded(s, v, at) ==
    enter([s EXCEPT !.out = Append(@, Signal("next", v, "none", at))])

\* this.destination.next(v): a stopped consumer ignores it.
destination_next(s, v, at) ==
    IF s.destStopped
        THEN s
        ELSE enter([s EXCEPT !.out = Append(@, Signal("next", v, "none", at))])

\* this.destination.error(e): delivered once, then the consumer tears down.
destination_error(s, e, at) ==
    IF s.destStopped
        THEN s
        ELSE destination_unsubscribe(
                 [s EXCEPT !.out = Append(@, Signal("error", Undefined, e, at))])

\* this.destination.complete(): delivered once, then the consumer tears down.
destination_complete(s, at) ==
    IF s.destStopped
        THEN s
        ELSE destination_unsubscribe(
                 [s EXCEPT !.out = Append(@, Signal("complete", Undefined, "none", at))])

\* Subscriber._error / Subscriber._complete, which SampleSubscriber inherits.
Subscriber_error(s, e, at) == unsubscribe(destination_error(s, e, at))

Subscriber_complete(s, at) == unsubscribe(destination_complete(s, at))

\* SimpleOuterSubscriber.notifyError, which SampleSubscriber inherits.
SimpleOuterSubscriber_notifyError(s, e, at) == destination_error(s, e, at)

\* ------------------------------------------------------- SampleSubscriber

\* Mutant: hasValue initialised true.
NewSampleSubscriber_hasValue ==
    [value |-> Undefined, hasValue |-> TRUE, closed |-> FALSE,
     innerActive |-> FALSE, linked |-> FALSE, destStopped |-> FALSE,
     out |-> <<>>, frames |-> <<>>]

\* A fresh SampleSubscriber: hasValue = false, no value.
NewSampleSubscriber ==
    [value |-> Undefined, hasValue |-> FALSE, closed |-> FALSE,
     innerActive |-> FALSE, linked |-> FALSE, destStopped |-> FALSE,
     out |-> <<>>, frames |-> <<>>]

\* Mutant: a value already latched is kept, the new one dropped.
_next_keepFirst(s, v) ==
    IF s.hasValue THEN s ELSE [s EXCEPT !.value = v, !.hasValue = TRUE]

\* Mutant: _next stores the value and leaves hasValue as it was.
_next_noFlag(s, v) == [s EXCEPT !.value = v]

\* Mutant: _next also forwards the value, as the Subscriber._next it overrides.
_next_forward(s, v) ==
    destination_next([s EXCEPT !.value = v, !.hasValue = TRUE], v, Len(trace) + 1)

_next(s, v) == [s EXCEPT !.value = v, !.hasValue = TRUE]

\* Mutant: hasValue is not cleared by an emission.
emitValue_noClear(s, at) ==
    IF s.hasValue THEN destination_next(s, s.value, at) ELSE s

\* Mutant: the value is forwarded whether or not hasValue is set.
emitValue_unconditional(s, at) ==
    destination_next([s EXCEPT !.hasValue = FALSE], s.value, at)

\* Mutant: the value is forwarded first and hasValue cleared only once
\* destination.next has returned.
emitValue_forwardFirst(s, at) ==
    IF s.hasValue
        THEN LET r == destination_next(s, s.value, at)
             IN  IF Len(r.frames) > Len(s.frames)
                     THEN [r EXCEPT !.frames[Len(r.frames)] = "clear"]
                     ELSE [r EXCEPT !.hasValue = FALSE]
        ELSE s

emitValue(s, at) ==
    IF s.hasValue
        THEN destination_next([s EXCEPT !.hasValue = FALSE], s.value, at)
        ELSE s

\* destination.next returns into emitValue, line 89: nothing is left to do in
\* it (a frame marked "clear" belongs to emitValue_forwardFirst).
resume(s) ==
    LET top == s.frames[Len(s.frames)]
        popped == [s EXCEPT !.frames = SubSeq(@, 1, Len(@) - 1)]
    IN  IF top = "clear" THEN [popped EXCEPT !.hasValue = FALSE] ELSE popped

\* Mutant: notifyNext not overridden, so that SimpleOuterSubscriber.notifyNext
\* forwards the notifier's value.
notifyNext_forward(s, w, at) == destination_next(s, w, at)

\* notifyNext(): the notifier's value w is not a parameter of the override.
notifyNext(s, w, at) == emitValue(s, at)

\* Mutant: notifyComplete does nothing.
notifyComplete_noFlush(s, at) == s

\* Mutant: notifyComplete not overridden, so that
\* SimpleOuterSubscriber.notifyComplete completes the consumer.
notifyComplete_inherited(s, at) == destination_complete(s, at)

notifyComplete(s, at) == emitValue(s, at)

\* Mutant: an _error override that closes without forwarding the error.
SampleSubscriber_error_swallow(s, e, at) == unsubscribe(s)

\* Mutant: a _complete override that flushes the latch before completing.
SampleSubscriber_complete_flush(s, at) == Subscriber_complete(emitValue(s, at), at)

\* Mutant: a notifyError override that flushes the latch before failing.
SampleSubscriber_notifyError_flush(s, e, at) ==
    SimpleOuterSubscriber_notifyError(emitValue(s, at), e, at)

\* SampleSubscriber overrides neither _error, _complete nor notifyError.
SampleSubscriber_error(s, e, at) == Subscriber_error(s, e, at)

SampleSubscriber_complete(s, at) == Subscriber_complete(s, at)

SampleSubscriber_notifyError(s, e, at) == SimpleOuterSubscriber_notifyError(s, e, at)

\* ---------------------------------------------------------------- history

\* One handled signal: k its kind, v the value it carried (Undefined if
\* none), had / lat the latch (hasValue, value) when it arrived, open whether
\* the SampleSubscriber was open and live whether the downstream consumer was
\* still listening when it arrived, has the value of hasValue once handled,
\* depth the number of consumer handlers that were running when it arrived.
Event(k, v) ==
    [k |-> k, v |-> v, had |-> hasValue, lat |-> value, open |-> ~closed,
     live |-> ~destStopped, has |-> hasValue', depth |-> Len(frames)]

\* Both subscriptions of SpecTwo draw on the same MaxEvents signals.
Room == Len(trace) + other.n < MaxEvents

At == Len(trace) + 1

Log(k, v) == trace' = Append(trace, Event(k, v))

\* ---------------------------------------------------------------- actions

Init ==
    /\ pc = "idle"
    /\ value = Undefined
    /\ hasValue = FALSE
    /\ closed = FALSE
    /\ innerActive = FALSE
    /\ linked = FALSE
    /\ destStopped = FALSE
    /\ out = <<>>
    /\ frames = <<>>
    /\ trace = <<>>
    /\ subAt = 0
    /\ lifted = FALSE
    /\ count = [output |-> 0, source |-> 0, notifier |-> 0]
    /\ other = [pc |-> "idle", n |-> 0, src |-> <<>>, s |-> NewSampleSubscriber]

\* Mutant: the SampleOperator subscribes to the notifier when it is built.
Lift_eager ==
    /\ ~lifted
    /\ lifted' = TRUE
    /\ count' = [count EXCEPT !.notifier = @ + 1]
    /\ UNCHANGED <<pc, value, hasValue, closed, innerActive, linked, destStopped,
                   out, frames, trace, subAt, other>>

\* sample(notifier)(source), lines 48-54: the operator is built and lifted
\* onto the source; nothing is subscribed.
Lift ==
    /\ ~lifted
    /\ lifted' = TRUE
    /\ UNCHANGED <<pc, value, hasValue, closed, innerActive, linked, destStopped,
                   out, frames, trace, subAt, count, other>>

\* Mutant: call subscribes the notifier before the source.
Subscribe_notifierFirst ==
    /\ lifted
    /\ pc = "idle"
    /\ pc' = "srcSub"
    /\ Set([NewSampleSubscriber EXCEPT !.innerActive = TRUE])
    /\ count' = [count EXCEPT !.output = @ + 1, !.source = @ + 1]
    /\ UNCHANGED <<trace, subAt, lifted, other>>

\* call, lines 57-58: the SampleSubscriber is created and handed to the source.
Subscribe ==
    /\ lifted
    /\ pc = "idle"
    /\ pc' = "srcSub"
    /\ Set(NewSampleSubscriber)
    /\ count' = [count EXCEPT !.output = @ + 1, !.source = @ + 1]
    /\ UNCHANGED <<trace, subAt, lifted, other>>

\* call, line 59, the argument: the notifier is subscribed with a new
\* SimpleInnerSubscriber, whatever happened while the source was subscribed.
InnerSubscribe ==
    /\ pc = "srcSub"
    /\ pc' = "notSub"
    /\ innerActive' = TRUE
    /\ subAt' = Len(trace)
    /\ count' = [count EXCEPT !.notifier = @ + 1]
    /\ UNCHANGED <<value, hasValue, closed, linked, destStopped, out, frames, trace>>
    /\ UNCHANGED <<lifted, other>>

\* subscription.add(inner): added to a closed subscription, inner is
\* unsubscribed at once; otherwise it becomes a child of the subscription.
subscription_add(s) ==
    IF s.closed
        THEN [s EXCEPT !.innerActive = FALSE]
        ELSE [s EXCEPT !.linked = TRUE]

\* Mutant: call returns without adding the inner subscription.
AddInner_notAdded ==
    /\ pc = "notSub"
    /\ pc' = "active"
    /\ frames = <<>>
    /\ UNCHANGED <<value, hasValue, closed, innerActive, linked, destStopped, out, frames, trace>>
    /\ UNCHANGED <<subAt, lifted, count, other>>

\* call, lines 59-60: the inner subscription is added, and call returns. The
\* notifier's subscribe has returned by then, and with it every handler.
AddInner ==
    /\ pc = "notSub"
    /\ frames = <<>>
    /\ pc' = "active"
    /\ Set(subscription_add(Cur))
    /\ UNCHANGED <<trace, subAt, lifted, count, other>>

SourceLive == pc \in {"srcSub", "notSub", "active"} /\ ~closed

NotifierLive == pc \in {"notSub", "active"} /\ innerActive

\* The source delivers next(v): Subscriber.next -> _next.
SourceNext(v) ==
    /\ SourceLive /\ Room
    /\ Set(_next(Cur, v))
    /\ Log("snext", v)
    /\ UNCHANGED <<pc, subAt, lifted, count, other>>

\* The source delivers error: Subscriber.error -> _error.
SourceError ==
    /\ SourceLive /\ Room
    /\ Set(SampleSubscriber_error(Cur, "source", At))
    /\ Log("serror", Undefined)
    /\ UNCHANGED <<pc, subAt, lifted, count, other>>

\* The source delivers complete: Subscriber.complete -> _complete.
SourceComplete ==
    /\ SourceLive /\ Room
    /\ Set(SampleSubscriber_complete(Cur, At))
    /\ Log("scomplete", Undefined)
    /\ UNCHANGED <<pc, subAt, lifted, count, other>>

\* The notifier delivers next(w): SimpleInnerSubscriber._next -> notifyNext.
NotifierNext(w) ==
    /\ NotifierLive /\ Room
    /\ Set(notifyNext(Cur, w, At))
    /\ Log("tick", w)
    /\ UNCHANGED <<pc, subAt, lifted, count, other>>

\* The notifier completes: SimpleInnerSubscriber._complete -> notifyComplete,
\* then the inner subscriber unsubscribes itself.
NotifierComplete ==
    /\ NotifierLive /\ Room
    /\ Set([notifyComplete(Cur, At) EXCEPT !.innerActive = FALSE])
    /\ Log("ncomplete", Undefined)
    /\ UNCHANGED <<pc, subAt, lifted, count, other>>

\* The notifier fails: SimpleInnerSubscriber._error -> notifyError, then the
\* inner subscriber unsubscribes itself.
NotifierError ==
    /\ NotifierLive /\ Room
    /\ Set([SampleSubscriber_notifyError(Cur, "notifier", At) EXCEPT !.innerActive = FALSE])
    /\ Log("nerror", Undefined)
    /\ UNCHANGED <<pc, subAt, lifted, count, other>>

\* The consumer unsubscribes the output subscription.
Unsubscribe ==
    /\ pc \in {"srcSub", "notSub", "active"} /\ ~destStopped /\ Room
    /\ Set(destination_unsubscribe(Cur))
    /\ Log("unsub", Undefined)
    /\ UNCHANGED <<pc, subAt, lifted, count, other>>

\* The consumer's next handler returns to the emitValue that called it.
HandlerReturn ==
    /\ frames # <<>>
    /\ Set(resume(Cur))
    /\ UNCHANGED <<pc, trace, subAt, lifted, count, other>>

Next ==
    \/ Lift
    \/ Subscribe
    \/ InnerSubscribe
    \/ AddInner
    \/ \E v \in Values : SourceNext(v)
    \/ SourceError
    \/ SourceComplete
    \/ \E w \in Ticks : NotifierNext(w)
    \/ NotifierComplete
    \/ NotifierError
    \/ Unsubscribe
    \/ HandlerReturn

Spec == Init /\ [][Next]_vars

\* ------------------------------------------ a second subscription (SpecTwo)
\* The output is subscribed a second time while the first subscription runs.
\* The second call is taken in one step (its source and notifier deliver
\* nothing while they are being subscribed), and its consumer's next handler
\* returns at once.

\* Mutant: value and hasValue are kept once, for every subscription.
Owner_shared(sub) == "A"

\* call, line 57: each call makes a SampleSubscriber of its own, and value
\* and hasValue are fields of it (lines 70-71): every subscription reads and
\* writes its own pair.
Owner(sub) == sub

\* The second SampleSubscriber as its handlers find it.
OtherCur ==
    IF Owner("B") = "B"
        THEN other.s
        ELSE [other.s EXCEPT !.value = value, !.hasValue = hasValue]

\* A handler of the second SampleSubscriber ran, leaving r; src is the
\* history of its source's values.
OtherSet(r, src) ==
    LET done == [r EXCEPT !.frames = <<>>]
    IN  IF Owner("B") = "B"
            THEN /\ other' = [other EXCEPT !.s = done, !.n = @ + 1, !.src = src]
                 /\ UNCHANGED <<value, hasValue>>
            ELSE /\ other' = [other EXCEPT !.s = [done EXCEPT !.value = other.s.value,
                                                             !.hasValue = other.s.hasValue],
                                           !.n = @ + 1, !.src = src]
                 /\ value' = r.value
                 /\ hasValue' = r.hasValue

\* call, lines 57-60, for the second subscription.
OtherSubscribe ==
    /\ lifted
    /\ other.pc = "idle"
    /\ other' = [other EXCEPT !.pc = "active",
                     !.s = subscription_add([NewSampleSubscriber EXCEPT !.innerActive = TRUE])]
    /\ count' = [count EXCEPT !.output = @ + 1, !.source = @ + 1, !.notifier = @ + 1]
    /\ UNCHANGED <<pc, value, hasValue, closed, innerActive, linked, destStopped,
                   out, frames, trace, subAt, lifted>>

\* The source delivers next(v) to the second subscription.
OtherSourceNext(v) ==
    /\ other.pc = "active" /\ ~other.s.closed /\ Room
    /\ OtherSet(_next(OtherCur, v), Append(other.src, v))
    /\ UNCHANGED <<pc, closed, innerActive, linked, destStopped, out, frames,
                   trace, subAt, lifted, count>>

\* The notifier delivers next(w) to the second subscription.
OtherNotifierNext(w) ==
    /\ other.pc = "active" /\ other.s.innerActive /\ Room
    /\ OtherSet(notifyNext(OtherCur, w, other.n + 1), other.src)
    /\ UNCHANGED <<pc, closed, innerActive, linked, destStopped, out, frames,
                   trace, subAt, lifted, count>>

\* The notifier completes for the second subscription.
OtherNotifierComplete ==
    /\ other.pc = "active" /\ other.s.innerActive /\ Room
    /\ OtherSet([notifyComplete(OtherCur, other.n + 1) EXCEPT !.innerActive = FALSE],
                other.src)
    /\ UNCHANGED <<pc, closed, innerActive, linked, destStopped, out, frames,
                   trace, subAt, lifted, count>>

NextTwo ==
    \/ Next
    \/ OtherSubscribe
    \/ \E v \in Values : OtherSourceNext(v)
    \/ \E w \in Ticks : OtherNotifierNext(w)
    \/ OtherNotifierComplete

SpecTwo == Init /\ [][NextTwo]_vars

\* ------------------------------------------------- reading the history

Max(S) == CHOOSE x \in S : \A y \in S : y <= x

Kinds == [i \in DOMAIN trace |-> trace[i].k]

\* The positions in out of the next signals delivered while signal i was handled.
NextsAt(i) == {j \in DOMAIN out : out[j].sig = "next" /\ out[j].at = i}

\* Everything delivered while signal i was handled.
SignalsAt(i) == {j \in DOMAIN out : out[j].at = i}

\* The source values handled before signal i.
SrcBefore(i) == {m \in 1..(i - 1) : m \in DOMAIN trace /\ trace[m].k = "snext"}

\* The signal that delivered the last next before position j of out (0: none).
PrevEmission(j) ==
    LET P == {out[n].at : n \in {n \in 1..(j - 1) : out[n].sig = "next"}}
    IN  IF P = {} THEN 0 ELSE Max(P)

NextValues == [j \in DOMAIN out |-> out[j].val]

\* ---------------------------------------------------------- properties

\* C1: each notifier tick delivers at most one next downstream, and the value
\* it delivers is the most recent source value received since the previous
\* downstream emission (or since the subscription began).
C1_TickEmitsLatestFresh ==
    \A i \in DOMAIN trace :
        trace[i].k = "tick" =>
            /\ Cardinality(NextsAt(i)) <= 1
            /\ \A j \in NextsAt(i) :
                   LET S == {m \in SrcBefore(i) : m > PrevEmission(j)}
                   IN  S # {} /\ out[j].val = trace[Max(S)].v

\* The scenario of C1: source 1, tick, source 2, tick delivers 1 then 2.
C1_Witness ==
    /\ Kinds = <<"snext", "tick", "snext", "tick">>
    /\ trace[1].v = 1 /\ trace[3].v = 2
    /\ out = <<Signal("next", 1, "none", 2), Signal("next", 2, "none", 4)>>

\* C2: no next is delivered downstream before the source has delivered a
\* value; with no source value at all, ticks deliver nothing.
C2_NoEmissionBeforeSource ==
    /\ \A j \in DOMAIN out : out[j].sig = "next" => SrcBefore(out[j].at) # {}
    /\ SrcBefore(At) = {} => \A j \in DOMAIN out : out[j].sig # "next"

\* Two ticks on a subscription whose source is silent, and nothing delivered.
C2_Witness ==
    /\ Len(trace) >= 2
    /\ trace[1].k = "tick" /\ trace[2].k = "tick"
    /\ SrcBefore(At) = {}
    /\ out = <<>>

\* C3: the latch holds the most recent source value; a tick that follows a
\* run of source values delivers exactly the last of them, and no next ever
\* carries a value older than the latest source value before it.
C3_LatchedNotQueued ==
    /\ hasValue => SrcBefore(At) # {} /\ value = trace[Max(SrcBefore(At))].v
    /\ \A i \in DOMAIN trace :
           (trace[i].k = "tick" /\ i > 1 /\ trace[i - 1].k = "snext") =>
               /\ Cardinality(NextsAt(i)) = 1
               /\ \A j \in NextsAt(i) : out[j].val = trace[i - 1].v
    /\ \A j \in DOMAIN out :
           (out[j].sig = "next" /\ SrcBefore(out[j].at) # {}) =>
               out[j].val = trace[Max(SrcBefore(out[j].at))].v

\* Source 1, 2, 3, then one tick: exactly 3 is delivered.
C3_Witness ==
    /\ Len(trace) >= 4
    /\ \A i \in 1..3 : trace[i].k = "snext" /\ trace[i].v = i
    /\ trace[4].k = "tick"
    /\ NextValues = <<3>>

\* C4: a tick with no source value since the previous emission delivers
\* nothing: between two delivered nexts there is a source value, and the
\* nexts delivered never outnumber the source values received.
C4_NeverTwice ==
    /\ \A i \in DOMAIN trace :
           (i > 1 /\ trace[i].k = "tick" /\ trace[i - 1].k = "tick") => NextsAt(i) = {}
    /\ \A j \in DOMAIN out : \A n \in DOMAIN out :
           (j < n /\ out[j].sig = "next" /\ out[n].sig = "next") =>
               \E m \in SrcBefore(out[n].at) : m > out[j].at
    /\ Cardinality({j \in DOMAIN out : out[j].sig = "next"}) <= Cardinality(SrcBefore(At))

\* A source value, a tick that delivers it, a second tick that delivers nothing.
C4_Witness ==
    /\ Len(trace) >= 3
    /\ trace[1].k = "snext" /\ trace[2].k = "tick" /\ trace[3].k = "tick"
    /\ Cardinality(NextsAt(2)) = 1
    /\ NextsAt(3) = {}

\* The emission routine as the signal at i ran it: with a fresh value and a
\* listening consumer exactly one next carrying the latched value, otherwise
\* nothing; hasValue is false afterwards.
Flushed(i) ==
    /\ IF trace[i].had /\ trace[i].live
           THEN /\ Cardinality(SignalsAt(i)) = 1
                /\ \A j \in SignalsAt(i) :
                       out[j].sig = "next" /\ out[j].val = trace[i].lat
           ELSE SignalsAt(i) = {}
    /\ ~trace[i].has

C6_NotifierCompletionKeepsSource ==
    \A i \in DOMAIN trace :
        trace[i].k = "ncomplete" =>
            /\ \A j \in SignalsAt(i) : out[j].sig = "next"
            /\ (i = Len(trace) /\ trace[i].open) => (~closed /\ ~destStopped)
            /\ \A j \in DOMAIN out : out[j].at > i => out[j].sig # "next"
            /\ \A m \in DOMAIN trace :
                   m > i =>
                       /\ trace[m].k = "snext" => trace[m].has
                       /\ trace[m].k = "serror" =>
                              \E j \in SignalsAt(m) :
                                  out[j].sig = "error" /\ out[j].err = "source"
                       /\ trace[m].k = "scomplete" =>
                              \E j \in SignalsAt(m) : out[j].sig = "complete"

\* The notifier completes, the source then emits (latched, not delivered) and
\* completes, and the consumer receives that completion.
C6_Witness ==
    /\ pc = "active"
    /\ Kinds = <<"snext", "ncomplete", "snext", "scomplete">>
    /\ trace[3].has
    /\ [j \in DOMAIN out |-> out[j].sig] = <<"next", "complete">>
    /\ out[2].at = 4

\* C7: a source error is delivered downstream, and it is the last signal the
\* consumer receives, whatever the notifier does afterwards and whether or
\* not a value was latched.
C7_SourceErrorIsLast ==
    \A i \in DOMAIN trace :
        trace[i].k = "serror" =>
            /\ SignalsAt(i) = {Len(out)}
            /\ out[Len(out)].sig = "error" /\ out[Len(out)].err = "source"

\* The source fails with a value latched; the notifier ticks afterwards and
\* the consumer has received the error and nothing else.
C7_Witness ==
    /\ Kinds = <<"snext", "serror", "tick">>
    /\ trace[2].had /\ trace[3].had
    /\ out = <<Signal("error", Undefined, "source", 2)>>

\* The first failure of either leg (0: none).
FirstError ==
    LET E == {i \in DOMAIN trace : trace[i].k \in {"serror", "nerror"}}
    IN  IF E = {} THEN 0 ELSE CHOOSE i \in E : \A n \in E : i <= n

Errors == {j \in DOMAIN out : out[j].sig = "error"}

\* C8 as stated: every notifier error is forwarded downstream, alone and as
\* the last signal, and ends both legs; the consumer receives one error, that
\* of the leg that failed first.
C8_Original ==
    /\ \A i \in DOMAIN trace :
           trace[i].k = "nerror" =>
               /\ SignalsAt(i) = {Len(out)}
               /\ out[Len(out)].sig = "error" /\ out[Len(out)].err = "notifier"
               /\ closed /\ ~innerActive
    /\ FirstError # 0 => Errors # {} /\ \A j \in Errors : out[j].at = FirstError
    /\ Cardinality(Errors) <= 1

\* C8, amended: a notifier error that arrives while the consumer is still
\* listening is forwarded, alone (the latch is not flushed) and as the last
\* signal; one that arrives after the consumer terminated or unsubscribed is
\* dropped; either way both legs have ended. The consumer receives at most
\* one error, and only that of the leg that failed first.
C8_NotifierErrorTerminates ==
    /\ \A i \in DOMAIN trace :
           trace[i].k = "nerror" =>
               /\ IF trace[i].live
                      THEN /\ SignalsAt(i) = {Len(out)}
                           /\ out[Len(out)].sig = "error"
                           /\ out[Len(out)].err = "notifier"
                      ELSE SignalsAt(i) = {}
               /\ trace[i].has = trace[i].had
               /\ closed /\ ~innerActive
    /\ (innerActive /\ destStopped) => pc = "notSub"
    /\ \A j \in Errors : out[j].at = FirstError
    /\ (FirstError # 0 /\ trace[FirstError].live) => Errors # {}
    /\ Cardinality(Errors) <= 1

\* The notifier fails with a value latched: the error alone is delivered, the
\* value stays latched, both legs have ended.
C8_Witness ==
    /\ pc = "active"
    /\ Kinds = <<"snext", "nerror">>
    /\ out = <<Signal("error", Undefined, "notifier", 2)>>
    /\ hasValue /\ closed /\ ~innerActive

Unsubscribed == \E i \in DOMAIN trace : trace[i].k = "unsub"

\* Unsubscribing delivers nothing, then or later.
TeardownIsSilent ==
    \A i \in DOMAIN trace :
        trace[i].k = "unsub" =>
            /\ \A j \in DOMAIN out : out[j].at < i
            /\ (\A m \in 1..(i - 1) : trace[m].k \notin {"tick", "ncomplete"}) =>
                   \A j \in DOMAIN out : out[j].sig # "next"

\* C9 as stated: unsubscribing delivers nothing, and after it neither leg is
\* active.
C9_Original ==
    /\ TeardownIsSilent
    /\ Unsubscribed => closed /\ ~innerActive

\* C9, amended: unsubscribing delivers nothing, then or later; after it the
\* source leg is closed, and the notifier leg is closed once call has
\* returned.
C9_TeardownEndsBothLegs ==
    /\ TeardownIsSilent
    /\ Unsubscribed => closed /\ (pc = "active" => ~innerActive)

\* Unsubscribed with a fresh value latched and before any tick: nothing was
\* delivered and both legs have ended.
C9_Witness ==
    /\ pc = "active"
    /\ Kinds = <<"snext", "unsub">>
    /\ linked /\ hasValue
    /\ out = <<>> /\ closed /\ ~innerActive

\* C10: the source's completion is delivered as a complete and flushes
\* nothing: every next is delivered by a notifier tick or completion.
C10_SourceCompletionDoesNotFlush ==
    /\ \A i \in DOMAIN trace :
           trace[i].k = "scomplete" =>
               /\ Cardinality(SignalsAt(i)) = 1
               /\ \A j \in SignalsAt(i) : out[j].sig = "complete"
    /\ \A j \in DOMAIN out :
           out[j].sig = "next" => trace[out[j].at].k \in {"tick", "ncomplete"}

\* The source completes with a fresh value latched: the consumer receives the
\* complete and not the value.
C10_Witness ==
    /\ Kinds = <<"snext", "scomplete">>
    /\ trace[2].had
    /\ out = <<Signal("complete", Undefined, "none", 2)>>

\* Signal i arrived from inside the consumer's handler for the next that
\* signal i - 1 delivered.
InsideHandlerOf(i) ==
    /\ i > 1
    /\ NextsAt(i - 1) # {}
    /\ trace[i].depth = trace[i - 1].depth + 1

\* C17: hasValue is already false when the consumer's next handler runs, so a
\* notifier tick or completion that arrives from inside that handler finds
\* no fresh value and delivers nothing: no latched value is delivered twice.
C17_ReentrantTickEmitsNothing ==
    /\ \A i \in DOMAIN trace : NextsAt(i) # {} => ~trace[i].has
    /\ \A i \in DOMAIN trace :
           (trace[i].k \in {"tick", "ncomplete"} /\ InsideHandlerOf(i)) =>
               ~trace[i].had /\ SignalsAt(i) = {}

\* A tick delivers the latched value and a second tick arrives from inside
\* the consumer's handler: only the first delivered.
C17_Witness ==
    /\ Kinds = <<"snext", "tick", "tick">>
    /\ InsideHandlerOf(3)
    /\ out = <<Signal("next", trace[1].v, "none", 2)>>

\* C18: a source value that arrives from inside the consumer's next handler
\* is latched and stays latched when the handler returns; the next notifier
\* tick or completion finds it and delivers it to a listening consumer.
C18_ReentrantSourceValueKept ==
    \A i \in DOMAIN trace :
        (trace[i].k = "snext" /\ InsideHandlerOf(i)) =>
            /\ trace[i].has
            /\ i = Len(trace) => (hasValue /\ value = trace[i].v)
            /\ (i < Len(trace) /\ trace[i + 1].k \in {"tick", "ncomplete"}) =>
                   /\ trace[i + 1].had /\ trace[i + 1].lat = trace[i].v
                   /\ trace[i + 1].live =>
                          \E j \in NextsAt(i + 1) : out[j].val = trace[i].v

\* Value 1 is delivered, value 2 arrives from inside the handler, the handler
\* returns, and the following tick delivers 2.
C18_Witness ==
    /\ Kinds = <<"snext", "tick", "snext", "tick">>
    /\ InsideHandlerOf(3)
    /\ trace[4].depth = 0
    /\ NextValues = <<1, 2>>

\* The step handles a source value.
SourceNextStep ==
    /\ Len(trace') = Len(trace) + 1
    /\ trace'[Len(trace')].k = "snext"

\* C11: handling a source value v sets the latch to v and hasValue to true
\* and changes nothing else: nothing is delivered downstream, and neither
\* the source nor the notifier subscription changes.
C11_SourceNextOnlyLatches ==
    [][SourceNextStep =>
           /\ value' = trace'[Len(trace')].v
           /\ hasValue'
           /\ UNCHANGED <<pc, closed, innerActive, linked, destStopped, out, frames>>]_vars

\* A source value was just handled on a subscription that has already
\* delivered one: it is latched, the output and both legs are as before.
C11_Witness ==
    /\ pc = "active"
    /\ Kinds = <<"snext", "tick", "snext">>
    /\ hasValue /\ value = trace[3].v
    /\ Len(out) = 1
    /\ ~closed /\ innerActive

NotifierKinds == {"tick", "ncomplete", "nerror"}

\* The first signal after innerSubscribe is a tick, and call has not
\* returned: the notifier emitted at the moment it was subscribed.
FirstTickIsSynchronous ==
    /\ pc = "notSub"
    /\ subAt + 1 \in DOMAIN trace
    /\ trace[subAt + 1].k = "tick"

\* The source is subscribed first: no notifier signal precedes innerSubscribe.
SourceSubscribedFirst ==
    /\ pc = "srcSub" => ~innerActive /\ subAt = 0
    /\ pc \in {"idle", "srcSub"} => \A i \in DOMAIN trace : trace[i].k \notin NotifierKinds
    /\ \A i \in 1..subAt : trace[i].k \notin NotifierKinds
    /\ count.notifier <= count.source

\* C12 as stated: the source is subscribed first, and a notifier that emits
\* at the moment it is subscribed finds hasValue false and delivers nothing,
\* whatever the source did during its own subscription.
C12_Original ==
    /\ SourceSubscribedFirst
    /\ FirstTickIsSynchronous =>
           ~trace[subAt + 1].had /\ SignalsAt(subAt + 1) = {}

\* C12, amended: the source is subscribed first; a notifier that emits at the
\* moment it is subscribed finds hasValue false and delivers nothing if the
\* source delivered no value during its own subscription, and otherwise
\* finds the last of those values latched and delivers it to a consumer that
\* is still listening.
C12_SynchronousNotifier ==
    /\ SourceSubscribedFirst
    /\ FirstTickIsSynchronous =>
           LET i == subAt + 1
           IN  IF SrcBefore(i) = {}
                   THEN ~trace[i].had /\ SignalsAt(i) = {}
                   ELSE /\ trace[i].had
                        /\ trace[i].lat = trace[Max(SrcBefore(i))].v
                        /\ trace[i].live =>
                               /\ Cardinality(SignalsAt(i)) = 1
                               /\ \A j \in SignalsAt(i) :
                                      out[j].sig = "next" /\ out[j].val = trace[i].lat
                        /\ ~trace[i].live => SignalsAt(i) = {}

\* The source delivers 1 then 2 while it is subscribed, the notifier ticks
\* while it is subscribed: 2 is delivered.
C12_Witness ==
    /\ FirstTickIsSynchronous
    /\ subAt = 2
    /\ Kinds = <<"snext", "snext", "tick">>
    /\ trace[1].v = 1 /\ trace[2].v = 2
    /\ NextValues = <<2>>

\* The last signal that delivered a next (0: none).
LastEmission ==
    LET P == {out[j].at : j \in {j \in DOMAIN out : out[j].sig = "next"}}
    IN  IF P = {} THEN 0 ELSE Max(P)

\* The last tick or notifier completion that found hasValue true (0: none).
LastFlush ==
    LET P == {i \in DOMAIN trace : trace[i].k \in {"tick", "ncomplete"} /\ trace[i].had}
    IN  IF P = {} THEN 0 ELSE Max(P)

\* C15 as stated: hasValue is true exactly when a source value has been
\* received since the subscription began or since the last downstream
\* emission.
C15_Original ==
    hasValue <=> \E m \in SrcBefore(At) : m > LastEmission

\* C15, amended: hasValue is true exactly when a source value has been
\* received since the subscription began or since the last tick or notifier
\* completion that found hasValue true; that signal forwarded the latched
\* value if the consumer was still listening and discarded it otherwise.
C15_HasValueIffFresh ==
    /\ hasValue <=> \E m \in SrcBefore(At) : m > LastFlush
    /\ \A i \in DOMAIN trace :
           (trace[i].k \in {"tick", "ncomplete"} /\ trace[i].had) =>
               IF trace[i].live THEN NextsAt(i) # {} ELSE SignalsAt(i) = {}
    /\ LastEmission <= LastFlush

\* A value is latched again after an emission, then flushed again.
C15_Witness ==
    /\ Kinds = <<"snext", "tick", "snext", "tick">>
    /\ LastFlush = 4 /\ LastEmission = 4
    /\ ~hasValue

\* The latched value once signal i was handled.
ValueAfter(i) == IF i = Len(trace) THEN value ELSE trace[i + 1].lat

Nexts == {j \in DOMAIN out : out[j].sig = "next"}

\* The source value that the next at position j of out carries: the last one
\* handled before the signal that delivered it (0: none).
SourceOf(j) ==
    IF SrcBefore(out[j].at) = {} THEN 0 ELSE Max(SrcBefore(out[j].at))

\* C19: the notifier's value is never inspected: from every reachable state,
\* handling a tick leads to the same latch and the same output whatever value
\* the tick carries (so two runs that differ only in the notifier's values
\* deliver the same sequence); and the values delivered are source values, in
\* the order in which the source emitted them.
C19_NotifierValueIgnored ==
    /\ \A w1 \in Ticks : \A w2 \in Ticks :
           notifyNext(Cur, w1, At) = notifyNext(Cur, w2, At)
    /\ \A j \in Nexts : SourceOf(j) # 0 /\ out[j].val = trace[SourceOf(j)].v
    /\ \A j \in Nexts : \A n \in Nexts : j < n => SourceOf(j) < SourceOf(n)

\* Two ticks carrying different values each delivered the source value
\* latched before it.
C19_Witness ==
    /\ Kinds = <<"snext", "tick", "snext", "tick">>
    /\ trace[2].v # trace[4].v
    /\ trace[1].v = 2 /\ trace[3].v = 1
    /\ NextValues = <<2, 1>>

Terminals == {j \in DOMAIN out : out[j].sig \in {"error", "complete"}}

LastSource ==
    IF SrcBefore(At) = {} THEN Undefined ELSE trace[Max(SrcBefore(At))].v

OtherLastSource ==
    IF other.src = <<>> THEN Undefined ELSE other.src[Len(other.src)]

OtherValuesOut ==
    {other.s.out[j].val : j \in {i \in DOMAIN other.s.out : other.s.out[i].sig = "next"}}

\* What each subscription holds and has emitted comes from its own source
\* signals only.
OwnLatch ==
    /\ value = LastSource
    /\ hasValue => SrcBefore(At) # {}
    /\ \A j \in Nexts : SourceOf(j) # 0 /\ out[j].val = trace[SourceOf(j)].v
    /\ other.s.value = OtherLastSource
    /\ other.s.hasValue => other.src # <<>>
    /\ \A x \in OtherValuesOut : \E i \in DOMAIN other.src : other.src[i] = x

\* A step of one subscription leaves the other's latch and emissions alone.
StepsApart ==
    /\ other' # other => UNCHANGED <<value, hasValue, out>>
    /\ trace' # trace => other' = other

\* C13: with two concurrent subscriptions to the same output, each has its
\* own value and hasValue: a value latched or flushed in one never changes
\* what the other holds or emits.
C13_OwnStateMachine == []OwnLatch /\ [][StepsApart]_vars

\* Both subscriptions latched a value of their own, and each tick emitted
\* the value of its own subscription.
C13_Witness ==
    /\ Kinds = <<"snext", "tick">>
    /\ NextValues = <<1>>
    /\ other.src = <<2>>
    /\ OtherValuesOut = {2}
    /\ ~hasValue /\ ~other.s.hasValue

\* C14: building the output subscribes nothing; each subscription of the
\* output subscribes the source once and the notifier once.
C14_LazyFactory ==
    /\ count.output = 0 => count.source = 0 /\ count.notifier = 0
    /\ count.output = 0 => ~innerActive /\ ~other.s.innerActive
    /\ count.source = count.output
    /\ count.notifier = count.output - (IF pc = "srcSub" THEN 1 ELSE 0)

\* The output was subscribed twice, and so were the source and the notifier.
C14_Witness ==
    /\ lifted
    /\ pc = "active" /\ other.pc = "active"
    /\ count = [output |-> 2, source |-> 2, notifier |-> 2]

====
